---- MODULE Spec2Model ----
(***************************************************************************)
(* Model of the GPU resource and device-negotiation layer of               *)
(* rust-vulkan-ray-tracing: memory-type selection and size alignment       *)
(* (buffer.rs), queue-family selection and device creation                 *)
(* (vulkan_base.rs), swapchain negotiation (windowed.rs) and host upload   *)
(* into a buffer (buffer.rs).                                              *)
(*                                                                         *)
(* Every operation is an action (or a chain of actions ordered by a        *)
(* program counter) that draws the answers of the Vulkan driver from       *)
(* small sets.  Option<T> is a sequence: <<>> is None, <<v>> is Some(v).   *)
(* Vec<T> and arrays are 1-based sequences; index i of the source is       *)
(* element i + 1.                                                          *)
(***************************************************************************)
EXTENDS Integers, Sequences, FiniteSets, TLC

VARIABLES
    mt,     \* last call of get_memory_type_index: inputs and returned index
    al,     \* last call of aligned_size: inputs, build mode and outcome
    cd,     \* last call of create_device: its arguments and the requests built
    pk,     \* pick_physical_device_and_queue_family_indices: position and locals
    sw,     \* Swapchain::new: position, locals and the handles it holds
    bf,     \* a BufferResource, its device memory and the store in progress
    im,     \* RenderTargetImage / create_host_visible_image: position and handles
    cb,     \* transition_image_to_general / copy_image_to_host: the one-shot
            \* command buffer, the queue and the layouts of the images
    pg      \* save_image_to_png: position, the mapped memory and the file

vars == <<mt, al, cd, pk, sw, bf, im, cb, pg>>

---------------------------------------------------------------------------
(* Bounds of the model *)

\* Length of the memory_types array (VK_MAX_MEMORY_TYPES is 32 in Vulkan).
MaxMemTypes == 2

\* Largest queue family index handed to create_device.
MaxFamilyIndex == 2

\* Most physical devices the instance enumerates, and most queue families
\* a device reports.
MaxDevices == 2
MaxFamilies == 2

\* Longest list of surface formats and of present modes a surface reports.
MaxFormats == 2
MaxModes == 2

\* Largest min_image_count, and how far max_image_count may exceed it.
MaxMinImages == 2

\* Largest width or height of an extent (apart from the all-bits-set
\* sentinel, which is the largest value of the word).
MaxDim == 2

\* Most images the driver creates beyond the requested count.
MaxExtraImages == 1

\* Largest size a BufferResource is created with; the driver may round the
\* allocation up by at most MaxPadding bytes.  Payloads are up to one byte
\* longer than the largest size.
MaxBufferSize == 2
MaxPadding == 1

\* Largest size_of::<T>() of a payload element.
MaxElemSize == 2

\* Most calls of store on one buffer in a behaviour.
MaxStores == 2

\* save_image_to_png: the samples per pixel, and the padding of a row and
\* the offset of the subresource, both in f32 words.
MaxSamples == 2
MaxRowPadding == 1
MaxOffset == 1

\* Width in bits of the integer type of aligned_size (u32 in the source);
\* TLC's integers are 32-bit signed, so the width is scaled down.
WordBits == 4

---------------------------------------------------------------------------
(* Program constants *)

DEVICE_LOCAL == 1
HOST_VISIBLE == 2
HOST_COHERENT == 4

\* vk::QueueFlags bits
GRAPHICS == 1
COMPUTE == 2

---------------------------------------------------------------------------
(* Arithmetic helpers *)

None == <<>>
Some(v) == <<v>>
IsSome(o) == o # <<>>
Unwrap(o) == o[1]

RECURSIVE Pow2(_)
Pow2(n) ==
    IF n = 0 THEN 1 ELSE 2 * Pow2(n - 1)

\* Bitwise AND of two naturals (the & operator).
RECURSIVE BitAnd(_, _)
BitAnd(a, b) ==
    IF a = 0 \/ b = 0 THEN 0
    ELSE (a % 2) * (b % 2) + 2 * BitAnd(a \div 2, b \div 2)

Min(S) == CHOOSE x \in S : \A y \in S : x <= y

SeqsUpTo(S, n) == UNION {[1..k -> S] : k \in 0..n}

Range(s) == {s[k] : k \in 1..Len(s)}

---------------------------------------------------------------------------
(* buffer.rs: get_memory_type_index *)

PropertyFlagSets == 0..(DEVICE_LOCAL + HOST_VISIBLE + HOST_COHERENT)

\* vk::PhysicalDeviceMemoryProperties: a count and a fixed-size array, of
\* which only the first memory_type_count entries are meaningful.
MemoryPropertiesTables ==
    [memory_type_count : 0..MaxMemTypes,
     memory_types : [1..MaxMemTypes -> [property_flags : PropertyFlagSets]]]

TypeBitsValues == 0..(Pow2(MaxMemTypes) - 1)

\* The for loop of lines 99-107, from iteration i on, with the current
\* (shifted) value of type_bits; line 108 is the fall-through return.
RECURSIVE MemoryTypeLoop(_, _, _, _)
MemoryTypeLoop(device_memory_properties, i, type_bits, properties) ==
    IF i >= device_memory_properties.memory_type_count THEN 0
    ELSE IF BitAnd(type_bits, 1) = 1
            /\ BitAnd(device_memory_properties.memory_types[i + 1].property_flags,
                      properties) = properties
         THEN i
         ELSE MemoryTypeLoop(device_memory_properties, i + 1,
                             type_bits \div 2, properties)

get_memory_type_index(device_memory_properties, type_bits, properties) ==
    MemoryTypeLoop(device_memory_properties, 0, type_bits, properties)

\* One call is observed per behaviour.
GetMemoryTypeIndex ==
    /\ ~mt.called
    /\ \E t \in MemoryPropertiesTables, b \in TypeBitsValues, p \in PropertyFlagSets :
          mt' = [called |-> TRUE,
                 device_memory_properties |-> t,
                 type_bits |-> b,
                 properties |-> p,
                 ret |-> get_memory_type_index(t, b, p)]
    /\ UNCHANGED <<al, cd, pk, sw, bf, im, cb, pg>>

---------------------------------------------------------------------------
(* buffer.rs: aligned_size *)

WordModulus == Pow2(WordBits)
WordMax == WordModulus - 1
Words == 0..WordMax

\* The outcome of an integer operation: a value, or a panic ("attempt to
\* add/subtract with overflow") when the build checks overflow.
Val(v) == [panic |-> FALSE, val |-> v]
Panic == [panic |-> TRUE, val |-> 0]

\* a + b and a - b on the unsigned word: overflow panics when the build has
\* overflow checks (debug profile) and wraps otherwise (release profile).
WordAdd(a, b, overflow_checks) ==
    IF a + b > WordMax
    THEN IF overflow_checks THEN Panic ELSE Val((a + b) % WordModulus)
    ELSE Val(a + b)

WordSub(a, b, overflow_checks) ==
    IF a - b < 0
    THEN IF overflow_checks THEN Panic ELSE Val((a - b) % WordModulus)
    ELSE Val(a - b)

\* !x on the unsigned word.
WordNot(x) == WordMax - x

\* (value + alignment - 1) & !(alignment - 1), evaluated left to right as
\* ((value + alignment) - 1) & !(alignment - 1).
aligned_size(value, alignment, overflow_checks) ==
    LET sum == WordAdd(value, alignment, overflow_checks)
        lhs == IF sum.panic THEN Panic ELSE WordSub(sum.val, 1, overflow_checks)
        am1 == WordSub(alignment, 1, overflow_checks)
    IN  IF lhs.panic \/ am1.panic THEN Panic
        ELSE Val(BitAnd(lhs.val, WordNot(am1.val)))

\* aligned_size(aligned_size(value, alignment), alignment)
aligned_size_twice(value, alignment, overflow_checks) ==
    LET once == aligned_size(value, alignment, overflow_checks)
    IN  IF once.panic THEN Panic
        ELSE aligned_size(once.val, alignment, overflow_checks)

\* One call is observed per behaviour.
AlignedSize ==
    /\ ~al.called
    /\ \E v \in Words, a \in Words, oc \in BOOLEAN :
          al' = [called |-> TRUE,
                 value |-> v,
                 alignment |-> a,
                 overflow_checks |-> oc,
                 once |-> aligned_size(v, a, oc),
                 twice |-> aligned_size_twice(v, a, oc)]
    /\ UNCHANGED <<mt, cd, pk, sw, bf, im, cb, pg>>

---------------------------------------------------------------------------
(* vulkan_base.rs: QueueFamilyIndices *)

OptionalFamilies == {None} \cup {Some(f) : f \in 0..MaxFamilyIndex}

QueueFamilyIndicesValues ==
    [graphics_family : OptionalFamilies,
     compute_family : OptionalFamilies,
     present_family : OptionalFamilies]

\* #[derive(Default)]
QueueFamilyIndicesDefault ==
    [graphics_family |-> None, compute_family |-> None, present_family |-> None]

\* Vec::contains
Contains(s, x) == \E k \in 1..Len(s) : s[k] = x

is_complete(self, need_compute, need_present) ==
    LET has_graphics == IsSome(self.graphics_family)
        has_compute == ~need_compute \/ IsSome(self.compute_family)
        has_present == ~need_present \/ IsSome(self.present_family)
    IN  has_graphics /\ has_compute /\ has_present

unique_families_no_dedup(self) ==
    LET f0 == IF IsSome(self.graphics_family)
              THEN <<Unwrap(self.graphics_family)>> ELSE <<>>
        f1 == IF IsSome(self.compute_family)
              THEN Append(f0, Unwrap(self.compute_family)) ELSE f0
    IN  IF IsSome(self.present_family)
        THEN Append(f1, Unwrap(self.present_family)) ELSE f1

unique_families(self) ==
    LET f0 == IF IsSome(self.graphics_family)
              THEN <<Unwrap(self.graphics_family)>> ELSE <<>>
        f1 == IF IsSome(self.compute_family)
                 /\ ~Contains(f0, Unwrap(self.compute_family))
              THEN Append(f0, Unwrap(self.compute_family)) ELSE f0
    IN  IF IsSome(self.present_family)
           /\ ~Contains(f1, Unwrap(self.present_family))
        THEN Append(f1, Unwrap(self.present_family)) ELSE f1

---------------------------------------------------------------------------
(* vulkan_base.rs: create_device *)

\* Lines 280-291: one DeviceQueueCreateInfo per element of
\* unique_families(), each with the one-element priorities array [1.0].
queue_create_infos(queue_indices) ==
    LET families == unique_families(queue_indices)
    IN  [k \in 1..Len(families) |->
            [queue_family_index |-> families[k], queue_priorities |-> <<"1.0">>]]

\* Lines 305-316
enabled_extension_names(headless_mode) ==
    LET base == <<"VK_KHR_ray_tracing_pipeline", "VK_KHR_acceleration_structure",
                  "VK_KHR_deferred_host_operations", "VK_KHR_spirv_1_4",
                  "VK_EXT_scalar_block_layout">>
    IN  IF ~headless_mode THEN Append(base, "VK_KHR_swapchain") ELSE base

\* One call is observed per behaviour; the DeviceCreateInfo it hands to
\* instance.create_device is recorded.
CreateDevice ==
    /\ ~cd.called
    /\ \E q \in QueueFamilyIndicesValues, h \in BOOLEAN :
          cd' = [called |-> TRUE,
                 queue_indices |-> q,
                 headless_mode |-> h,
                 queue_create_infos |-> queue_create_infos(q),
                 enabled_extension_names |-> enabled_extension_names(h)]
    /\ UNCHANGED <<mt, al, pk, sw, bf, im, cb, pg>>

---------------------------------------------------------------------------
(* vulkan_base.rs: pick_physical_device_and_queue_family_indices *)

ExtensionNames == {"VK_KHR_acceleration_structure", "VK_KHR_ray_tracing_pipeline"}

\* The extensions argument: none, one, or both names.
RequiredExtensionSets ==
    {{}, {"VK_KHR_acceleration_structure"}, ExtensionNames}

\* VkResult<Vec<ExtensionProperties>> of enumerate_device_extension_properties
ExtensionAnswers ==
    {[ok |-> FALSE, names |-> {}]} \cup {[ok |-> TRUE, names |-> e] : e \in RequiredExtensionSets}

\* VkResult<bool> of get_physical_device_surface_support
SupportAnswers == {"true", "false", "err"}

\* What the driver reports for one queue family.  A family without queues
\* is drawn with both capability flags set: the family the scans must skip.
QueueFamilyAnswers ==
    {f \in [queue_count : 0..1,
            queue_flags : 0..(GRAPHICS + COMPUTE),
            surface_support : SupportAnswers] :
        f.queue_count = 0 => f.queue_flags = GRAPHICS + COMPUTE}

\* What the driver reports for one physical device.
DeviceAnswers ==
    [extension_properties : ExtensionAnswers,
     queue_families : SeqsUpTo(QueueFamilyAnswers, MaxFamilies)]

NoDevice ==
    [extension_properties |-> [ok |-> FALSE, names |-> {}], queue_families |-> <<>>]

\* Iterator::find over enumerate(): the index of the first TRUE of hits.
RECURSIVE FindFrom(_, _)
FindFrom(hits, k) ==
    IF k > Len(hits) THEN None
    ELSE IF hits[k] THEN Some(k - 1)
    ELSE FindFrom(hits, k + 1)

\* Lines 200-212: the extension test of the closure.
supports_extensions(d, extensions) ==
    /\ d.extension_properties.ok
    /\ \A ext \in extensions : ext \in d.extension_properties.names

\* QueueFlags::contains
FlagsContain(flags, other) == BitAnd(flags, other) = other

\* Lines 220-230
find_graphics(queue_families) ==
    FindFrom([k \in 1..Len(queue_families) |->
                 queue_families[k].queue_count > 0
                 /\ FlagsContain(queue_families[k].queue_flags, GRAPHICS)], 1)

\* Lines 234-244
find_compute(queue_families) ==
    FindFrom([k \in 1..Len(queue_families) |->
                 queue_families[k].queue_count > 0
                 /\ FlagsContain(queue_families[k].queue_flags, COMPUTE)], 1)

\* Lines 249-262: unwrap_or(false) turns a failed query into "no support".
find_present(queue_families) ==
    FindFrom([k \in 1..Len(queue_families) |->
                 queue_families[k].surface_support = "true"], 1)

\* Lines 214-264: the indices the closure builds for one device.
device_indices(d, need_compute, has_loader, has_surface) ==
    [graphics_family |-> find_graphics(d.queue_families),
     compute_family |->
        IF need_compute THEN find_compute(d.queue_families) ELSE None,
     present_family |->
        IF has_loader /\ has_surface THEN find_present(d.queue_families) ELSE None]

examine_device_ignoring_present(d, extensions, need_compute, has_loader, has_surface) ==
    IF ~supports_extensions(d, extensions) THEN None
    ELSE LET indices == device_indices(d, need_compute, has_loader, has_surface)
         IN  IF is_complete(indices, need_compute, FALSE)
             THEN Some(indices) ELSE None

\* Lines 198-271: the closure of find_map, for the device whose answers are
\* d; need_present is surface.is_some() (line 194).
examine_device(d, extensions, need_compute, has_loader, has_surface) ==
    IF ~supports_extensions(d, extensions) THEN None
    ELSE LET indices == device_indices(d, need_compute, has_loader, has_surface)
             need_present == has_surface
         IN  IF is_complete(indices, need_compute, need_present)
             THEN Some(indices) ELSE None

PickIdle ==
    [pc |-> "idle", extensions |-> {}, need_compute |-> FALSE,
     has_loader |-> FALSE, has_surface |-> FALSE,
     n |-> 0, i |-> 0, dev |-> NoDevice, verdicts |-> <<>>,
     result |-> [ok |-> TRUE, value |-> None]]

\* Line 196: the call and enumerate_physical_devices()?, which either
\* fails (the error is returned) or yields n device handles.
PickBegin ==
    /\ pk.pc = "idle"
    /\ \E e \in RequiredExtensionSets, nc \in BOOLEAN, l \in BOOLEAN, s \in BOOLEAN,
          enumerated \in BOOLEAN, n \in 0..MaxDevices :
          /\ ~enumerated => n = 0
          /\ pk' = [pk EXCEPT !.pc = IF enumerated THEN "scanning" ELSE "done",
                              !.extensions = e, !.need_compute = nc,
                              !.has_loader = l, !.has_surface = s, !.n = n,
                              !.result = [ok |-> enumerated, value |-> None]]
    /\ UNCHANGED <<mt, al, cd, sw, bf, im, cb, pg>>

\* find_map reaches device i: the closure queries the driver about it.
PickQuery ==
    /\ pk.pc = "scanning"
    /\ pk.i < pk.n
    /\ \E d \in DeviceAnswers :
          pk' = [pk EXCEPT !.pc = "examining", !.dev = d]
    /\ UNCHANGED <<mt, al, cd, sw, bf, im, cb, pg>>

\* The device as the claim describes it: it qualifies when it supports every
\* required extension and has the families the requirements ask for.  Kept
\* for each examined device as a history of the scan.
HasGraphics(f) == f.queue_count > 0 /\ f.queue_flags \in {GRAPHICS, GRAPHICS + COMPUTE}
HasCompute(f) == f.queue_count > 0 /\ f.queue_flags \in {COMPUTE, GRAPHICS + COMPUTE}
HasPresent(f, has_loader) == has_loader /\ f.surface_support = "true"

DeviceQualifies(d, extensions, need_compute, has_loader, has_surface) ==
    /\ d.extension_properties.ok
    /\ extensions \subseteq d.extension_properties.names
    /\ \E k \in 1..Len(d.queue_families) : HasGraphics(d.queue_families[k])
    /\ need_compute =>
          \E k \in 1..Len(d.queue_families) : HasCompute(d.queue_families[k])
    /\ has_surface =>
          \E k \in 1..Len(d.queue_families) : HasPresent(d.queue_families[k], has_loader)

\* The closure returns for device i: Some ends find_map with that device,
\* None moves it on to the next one.
PickDecide ==
    /\ pk.pc = "examining"
    /\ LET r == examine_device(pk.dev, pk.extensions, pk.need_compute,
                               pk.has_loader, pk.has_surface)
           v == DeviceQualifies(pk.dev, pk.extensions, pk.need_compute,
                                pk.has_loader, pk.has_surface)
       IN  IF IsSome(r)
           THEN pk' = [pk EXCEPT !.pc = "done",
                                 !.verdicts = Append(@, v),
                                 !.result = [ok |-> TRUE,
                                             value |-> Some([physical_device |-> pk.i,
                                                             indices |-> Unwrap(r)])]]
           ELSE pk' = [pk EXCEPT !.pc = "scanning",
                                 !.verdicts = Append(@, v),
                                 !.i = pk.i + 1,
                                 !.dev = NoDevice]
    /\ UNCHANGED <<mt, al, cd, sw, bf, im, cb, pg>>

\* find_map runs out of devices: Ok(None).
PickExhausted ==
    /\ pk.pc = "scanning"
    /\ pk.i = pk.n
    /\ pk' = [pk EXCEPT !.pc = "done", !.result = [ok |-> TRUE, value |-> None]]
    /\ UNCHANGED <<mt, al, cd, sw, bf, im, cb, pg>>

---------------------------------------------------------------------------
(* windowed.rs: Swapchain::new *)

U32_MAX == WordMax

SurfaceFormats ==
    [format : {"B8G8R8A8_SRGB", "R8G8B8A8_UNORM"},
     color_space : {"SRGB_NONLINEAR", "EXTENDED_SRGB_LINEAR"}]

PresentModes == {"FIFO", "MAILBOX", "IMMEDIATE"}

Dims == 0..MaxDim

Extents == [width : Dims, height : Dims]

NoFormat == [format |-> "UNDEFINED", color_space |-> "UNDEFINED"]
NoExtent == [width |-> 0, height |-> 0]
NoCaps == [current_extent |-> NoExtent, min_image_extent |-> NoExtent,
           max_image_extent |-> NoExtent]
NoCreateInfo ==
    [min_image_count |-> 0, image_format |-> "UNDEFINED",
     image_color_space |-> "UNDEFINED", image_extent |-> NoExtent,
     present_mode |-> "UNDEFINED"]

\* The extents of the surface capabilities: min_image_extent is
\* component-wise at most max_image_extent, as Vulkan guarantees; the
\* current extent is any extent, or has the all-bits-set sentinel.
CapabilityExtents ==
    {c \in [current_extent : [width : Dims \cup {U32_MAX}, height : Dims \cup {U32_MAX}],
            min_image_extent : Extents,
            max_image_extent : Extents] :
        /\ c.min_image_extent.width <= c.max_image_extent.width
        /\ c.min_image_extent.height <= c.max_image_extent.height}

surface_format_first(surface_formats) == surface_formats[1]

\* Lines 36-42: find the preferred format, else the first of the list.
surface_format(surface_formats) ==
    LET hit == FindFrom([k \in 1..Len(surface_formats) |->
                            surface_formats[k].format = "B8G8R8A8_SRGB"
                            /\ surface_formats[k].color_space = "SRGB_NONLINEAR"], 1)
    IN  IF IsSome(hit) THEN surface_formats[Unwrap(hit) + 1]
        ELSE surface_formats[1]

present_mode_first(present_modes) == present_modes[1]

present_mode_immediate_fallback(present_modes) ==
    IF Contains(present_modes, "MAILBOX") THEN "MAILBOX" ELSE "IMMEDIATE"

\* Lines 53-56: find MAILBOX, else FIFO.
present_mode(present_modes) ==
    LET hit == FindFrom([k \in 1..Len(present_modes) |->
                            present_modes[k] = "MAILBOX"], 1)
    IN  IF IsSome(hit) THEN present_modes[Unwrap(hit) + 1]
        ELSE "FIFO"

\* u32::min, u32::max, u32::clamp (min <= max holds for the arguments drawn)
MinOf(a, b) == IF a <= b THEN a ELSE b
MaxOf(a, b) == IF a >= b THEN a ELSE b
clamp(v, min, max) == IF v < min THEN min ELSE IF v > max THEN max ELSE v

image_count_capped(min_image_count, max_image_count) ==
    MinOf(min_image_count + 1, max_image_count)

\* Lines 58-59
image_count(min_image_count, max_image_count) ==
    MinOf(min_image_count + 1, MaxOf(max_image_count, min_image_count + 1))

extent_width_only(caps, width, height) ==
    IF caps.current_extent.width # U32_MAX
    THEN caps.current_extent
    ELSE [width |-> clamp(width, caps.min_image_extent.width,
                          caps.max_image_extent.width),
          height |-> clamp(height, caps.min_image_extent.width,
                           caps.max_image_extent.width)]

\* Lines 61-74
extent(caps, width, height) ==
    IF caps.current_extent.width # U32_MAX
    THEN caps.current_extent
    ELSE [width |-> clamp(width, caps.min_image_extent.width,
                          caps.max_image_extent.width),
          height |-> clamp(height, caps.min_image_extent.height,
                           caps.max_image_extent.height)]

\* The locals of Swapchain::new.  A local that the code does not read again
\* is not carried past the step after its last use; of present_modes, the
\* set of the modes it lists is kept as reported_modes.  The capabilities are
\* queried first (line 22); each of their fields, like the width and height
\* arguments, is drawn at the step that reads it, since nothing before that
\* step depends on it.
SwapIdle ==
    [pc |-> "idle", error |-> "",
     surface_formats |-> <<>>, surface_format |-> NoFormat,
     present_modes |-> <<>>, reported_modes |-> {}, present_mode |-> "UNDEFINED",
     min_image_count |-> 0, max_image_count |-> 0, image_count |-> 0,
     caps |-> NoCaps, width |-> 0, height |-> 0, extent |-> NoExtent,
     create_info |-> NoCreateInfo,
     swapchain |-> "null", images |-> 0, image_views |-> 0, live_views |-> 0,
     calls |-> <<>>]

SwapFail(msg) == [sw EXCEPT !.pc = "err", !.error = msg]

\* Lines 22-25: get_physical_device_surface_capabilities(...)?
SwapCapabilities ==
    /\ sw.pc = "idle"
    /\ \E ok \in BOOLEAN :
          sw' = IF ok THEN [sw EXCEPT !.pc = "caps"] ELSE SwapFail("vk")
    /\ UNCHANGED <<mt, al, cd, pk, bf, im, cb, pg>>

\* Lines 27-42: get_physical_device_surface_formats(...)?, the emptiness
\* test and the choice of the format.
SwapFormat ==
    /\ sw.pc = "caps"
    /\ \/ sw' = SwapFail("vk")
       \/ \E fs \in SeqsUpTo(SurfaceFormats, MaxFormats) :
             sw' = IF fs = <<>>
                   THEN [SwapFail("No surface formats available")
                            EXCEPT !.surface_formats = fs]
                   ELSE [sw EXCEPT !.pc = "format",
                                   !.surface_formats = fs,
                                   !.surface_format = surface_format(fs)]
    /\ UNCHANGED <<mt, al, cd, pk, bf, im, cb, pg>>

\* Lines 44-56: get_physical_device_surface_present_modes(...)?, the
\* emptiness test and the choice of the mode.
SwapPresentMode ==
    /\ sw.pc = "format"
    /\ \/ sw' = [SwapFail("vk") EXCEPT !.surface_formats = <<>>]
       \/ \E ms \in SeqsUpTo(PresentModes, MaxModes) :
             sw' = IF ms = <<>>
                   THEN [SwapFail("No present modes available")
                            EXCEPT !.surface_formats = <<>>, !.present_modes = ms]
                   ELSE [sw EXCEPT !.pc = "mode",
                                   !.surface_formats = <<>>,
                                   !.present_modes = ms,
                                   !.reported_modes = Range(ms),
                                   !.present_mode = present_mode(ms)]
    /\ UNCHANGED <<mt, al, cd, pk, bf, im, cb, pg>>

\* Lines 58-59
SwapImageCount ==
    /\ sw.pc = "mode"
    /\ \E lo \in 1..MaxMinImages, hi \in 0..(MaxMinImages + 1) :
          sw' = [sw EXCEPT !.pc = "count",
                           !.present_modes = <<>>,
                           !.min_image_count = lo,
                           !.max_image_count = hi,
                           !.image_count = image_count(lo, hi)]
    /\ UNCHANGED <<mt, al, cd, pk, bf, im, cb, pg>>

\* Lines 61-74
SwapExtent ==
    /\ sw.pc = "count"
    /\ \E c \in CapabilityExtents, w \in Dims, h \in Dims :
          sw' = [sw EXCEPT !.pc = "extent",
                           !.min_image_count = 0,
                           !.max_image_count = 0,
                           !.caps = c, !.width = w, !.height = h,
                           !.extent = extent(c, w, h)]
    /\ UNCHANGED <<mt, al, cd, pk, bf, im, cb, pg>>

\* Lines 76-95: the create info and create_swapchain(...)?
SwapCreate ==
    /\ sw.pc = "extent"
    /\ LET info == [min_image_count |-> sw.image_count,
                    image_format |-> sw.surface_format.format,
                    image_color_space |-> sw.surface_format.color_space,
                    image_extent |-> sw.extent,
                    present_mode |-> sw.present_mode]
           next == [sw EXCEPT !.caps = NoCaps, !.width = 0, !.height = 0,
                              !.create_info = info]
       IN  \E ok \in BOOLEAN :
              sw' = IF ok THEN [next EXCEPT !.pc = "created", !.swapchain = "live"]
                    ELSE [next EXCEPT !.pc = "err", !.error = "vk"]
    /\ UNCHANGED <<mt, al, cd, pk, bf, im, cb, pg>>

\* Line 97: get_swapchain_images(swapchain)?; the driver creates at least
\* the requested number of images.
SwapImages ==
    /\ sw.pc = "created"
    /\ \/ sw' = SwapFail("vk")
       \/ \E extra \in 0..MaxExtraImages :
             sw' = [sw EXCEPT !.pc = "views", !.images = sw.image_count + extra]
    /\ UNCHANGED <<mt, al, cd, pk, bf, im, cb, pg>>

\* Lines 100-114: one turn of the loop, create_image_view(...)? and push.
SwapView ==
    /\ sw.pc = "views"
    /\ sw.image_views < sw.images
    /\ \E ok \in BOOLEAN :
          sw' = IF ok THEN [sw EXCEPT !.image_views = @ + 1, !.live_views = @ + 1]
                ELSE SwapFail("vk")
    /\ UNCHANGED <<mt, al, cd, pk, bf, im, cb, pg>>

\* Lines 116-123: Ok(Self { .. })
SwapReturn ==
    /\ sw.pc = "views"
    /\ sw.image_views = sw.images
    /\ sw' = [sw EXCEPT !.pc = "ok"]
    /\ UNCHANGED <<mt, al, cd, pk, bf, im, cb, pg>>

\* Lines 126-133: the calls of Swapchain::destroy, in the order it makes
\* them: destroy_image_view for each element of image_views, then
\* destroy_swapchain.
swapchain_destroy(image_views) ==
    [k \in 1..image_views |-> [call |-> "destroy_image_view", handle |-> k]]
        \o <<[call |-> "destroy_swapchain", handle |-> 0]>>

\* Lines 126-133: Swapchain::destroy, on the value new returned.
SwapDestroy ==
    /\ sw.pc = "ok"
    /\ sw' = [sw EXCEPT !.pc = "destroyed", !.live_views = 0, !.swapchain = "destroyed",
                        !.calls = swapchain_destroy(sw.image_views)]
    /\ UNCHANGED <<mt, al, cd, pk, bf, im, cb, pg>>

---------------------------------------------------------------------------
(* buffer.rs: BufferResource *)

Bytes == {0, 1}

\* The payloads &[T]: the element size and the bytes of the slice, a whole
\* number of elements.
Payloads ==
    {p \in [elem_size : 1..MaxElemSize, bytes : SeqsUpTo(Bytes, MaxBufferSize + 1)] :
        Len(p.bytes) % p.elem_size = 0}

NoPayload == [elem_size |-> 1, bytes |-> <<>>]

BufferIdle ==
    [pc |-> "idle", buffer |-> "null", memory |-> "null", size |-> 0,
     contents |-> <<>>, mapped |-> FALSE, mapped_size |-> 0,
     data |-> NoPayload, before |-> <<>>, stores |-> 0, calls |-> <<>>]

\* Lines 12-59: BufferResource::new.  Each of create_buffer (line 24),
\* allocate_memory (line 48) and bind_buffer_memory (line 50) is unwrapped,
\* so a failure panics, and the panic releases nothing: the buffer is
\* still live when allocate_memory fails, and the buffer and the memory
\* when bind_buffer_memory fails.  The allocation has the size the memory
\* requirements report, which is at least the size asked for, and its
\* contents are whatever the memory held.
BufferNew ==
    /\ bf.pc = "idle"
    /\ \/ bf' = [bf EXCEPT !.pc = "panic"]
       \/ bf' = [bf EXCEPT !.pc = "panic", !.buffer = "live"]
       \/ \E size \in 1..MaxBufferSize, pad \in 0..MaxPadding, bound \in BOOLEAN :
             \E c \in [1..(size + pad) -> Bytes] :
                bf' = IF bound
                      THEN [bf EXCEPT !.pc = "ready", !.buffer = "live",
                                      !.memory = "live", !.size = size,
                                      !.contents = c, !.before = c]
                      ELSE [bf EXCEPT !.pc = "panic", !.buffer = "live",
                                      !.memory = "live",
                                      !.contents = c, !.before = c]
    /\ UNCHANGED <<mt, al, cd, pk, sw, im, cb, pg>>

\* data.len()
data_len(data) == Len(data.bytes) \div data.elem_size

\* Line 63: (size_of::<T>() * data.len()) as u64
payload_size(data) == data.elem_size * data_len(data)

\* Line 64: assert!(self.size >= size)
size_assertion_always_passes(self_size, size) == TRUE

size_assertion(self_size, size) == self_size >= size

\* Lines 61-64: the call, the size of the payload and the assertion.
StoreBegin ==
    /\ bf.pc \in {"ready", "returned"}
    /\ bf.stores < MaxStores
    /\ \E data \in Payloads :
          LET size == payload_size(data)
          IN  bf' = [bf EXCEPT !.pc = IF size_assertion(bf.size, size)
                                      THEN "asserted" ELSE "panic",
                               !.data = data,
                               !.before = bf.contents,
                               !.stores = @ + 1]
    /\ UNCHANGED <<mt, al, cd, pk, sw, im, cb, pg>>

\* Lines 65, 72-78: map_memory(self.memory, 0, size, ..).unwrap()
StoreMap ==
    /\ bf.pc = "asserted"
    /\ \E ok \in BOOLEAN :
          bf' = IF ok
                THEN [bf EXCEPT !.pc = "mapped", !.mapped = TRUE,
                                !.mapped_size = payload_size(bf.data)]
                ELSE [bf EXCEPT !.pc = "panic"]
    /\ UNCHANGED <<mt, al, cd, pk, sw, im, cb, pg>>

\* The memory after count bytes of src are written at its start.
WriteBytes(contents, src, count) ==
    [k \in 1..Len(contents) |-> IF k <= count THEN src[k] ELSE contents[k]]

\* Lines 66-67: Align::new(mapped_ptr, align_of::<T>(), size) and
\* copy_from_slice(&data).  size_of::<T>() is a multiple of align_of::<T>(),
\* so the elements are laid out without padding and the copy writes
\* data.len() elements of size_of::<T>() bytes each.
copy_from_slice_len_bytes(contents, data) ==
    WriteBytes(contents, data.bytes, data_len(data))

copy_from_slice(contents, data) ==
    WriteBytes(contents, data.bytes, data_len(data) * data.elem_size)

StoreCopy ==
    /\ bf.pc = "mapped"
    /\ bf' = [bf EXCEPT !.pc = "copied",
                        !.contents = copy_from_slice(bf.contents, bf.data)]
    /\ UNCHANGED <<mt, al, cd, pk, sw, im, cb, pg>>

\* Lines 68, 80-84: unmap_memory(self.memory), and store returns.
StoreUnmap ==
    /\ bf.pc = "copied"
    /\ bf' = [bf EXCEPT !.pc = "returned", !.mapped = FALSE, !.mapped_size = 0]
    /\ UNCHANGED <<mt, al, cd, pk, sw, im, cb, pg>>

\* Lines 86-91: the calls of BufferResource::destroy, in the order it makes
\* them.
buffer_destroy(self) ==
    <<[call |-> "destroy_buffer", handle |-> "buffer"],
      [call |-> "free_memory", handle |-> "memory"]>>

\* Lines 86-91: destroy_buffer, then free_memory.
BufferDestroy ==
    /\ bf.pc \in {"ready", "returned"}
    /\ bf' = [bf EXCEPT !.pc = "destroyed", !.buffer = "destroyed", !.memory = "freed",
                        !.calls = buffer_destroy(bf)]
    /\ UNCHANGED <<mt, al, cd, pk, sw, im, cb, pg>>

---------------------------------------------------------------------------
(* image_utils.rs: RenderTargetImage and create_host_visible_image *)

\* The handles of one creation, the memory type asked for, and the calls a
\* destroy makes, in the order it makes them.
ImageIdle ==
    [pc |-> "idle", fn |-> "", image |-> "null", memory |-> "null",
     bound |-> FALSE, view |-> "null", memory_type_index |-> 0, calls |-> <<>>]

ImageFail == [im EXCEPT !.pc = "err"]

\* Lines 22-38: the create info and create_image(...)?
RenderTargetCreateImage ==
    /\ im.pc = "idle"
    /\ \E ok \in BOOLEAN :
          im' = IF ok
                THEN [im EXCEPT !.pc = "image", !.fn = "RenderTargetImage::new",
                                !.image = "live"]
                ELSE [ImageFail EXCEPT !.fn = "RenderTargetImage::new"]
    /\ UNCHANGED <<mt, al, cd, pk, sw, bf, cb, pg>>

\* Lines 40-49: the memory requirements, the memory type index and
\* allocate_memory(...)?
RenderTargetAllocate ==
    /\ im.pc = "image"
    /\ im.fn = "RenderTargetImage::new"
    /\ \E t \in MemoryPropertiesTables, type_bits \in TypeBitsValues, ok \in BOOLEAN :
          LET index == get_memory_type_index(t, type_bits, DEVICE_LOCAL)
          IN  im' = IF ok
                    THEN [im EXCEPT !.pc = "memory", !.memory = "live",
                                    !.memory_type_index = index]
                    ELSE [ImageFail EXCEPT !.memory_type_index = index]
    /\ UNCHANGED <<mt, al, cd, pk, sw, bf, cb, pg>>

\* Line 50: bind_image_memory(image, memory, 0)?
RenderTargetBind ==
    /\ im.pc = "memory"
    /\ im.fn = "RenderTargetImage::new"
    /\ \E ok \in BOOLEAN :
          im' = IF ok THEN [im EXCEPT !.pc = "bound", !.bound = TRUE] ELSE ImageFail
    /\ UNCHANGED <<mt, al, cd, pk, sw, bf, cb, pg>>

\* Lines 52-66: create_image_view(...)? and Ok(Self { image, memory, view })
RenderTargetView ==
    /\ im.pc = "bound"
    /\ im.fn = "RenderTargetImage::new"
    /\ \E ok \in BOOLEAN :
          im' = IF ok THEN [im EXCEPT !.pc = "ok", !.view = "live"] ELSE ImageFail
    /\ UNCHANGED <<mt, al, cd, pk, sw, bf, cb, pg>>

render_target_destroy_memory_first(self) ==
    <<[call |-> "free_memory", handle |-> "memory"],
      [call |-> "destroy_image_view", handle |-> "view"],
      [call |-> "destroy_image", handle |-> "image"]>>

\* Lines 69-75: the calls of RenderTargetImage::destroy.
render_target_destroy(self) ==
    <<[call |-> "destroy_image_view", handle |-> "view"],
      [call |-> "destroy_image", handle |-> "image"],
      [call |-> "free_memory", handle |-> "memory"]>>

\* Lines 69-75: RenderTargetImage::destroy, on the value new returned.
RenderTargetDestroy ==
    /\ im.pc = "ok"
    /\ im.fn = "RenderTargetImage::new"
    /\ im' = [im EXCEPT !.pc = "destroyed",
                        !.calls = render_target_destroy(im),
                        !.view = "destroyed", !.image = "destroyed",
                        !.memory = "freed"]
    /\ UNCHANGED <<mt, al, cd, pk, sw, bf, cb, pg>>

\* Lines 152-164: the create info and create_image(...)?
HostVisibleCreateImage ==
    /\ im.pc = "idle"
    /\ \E ok \in BOOLEAN :
          im' = IF ok
                THEN [im EXCEPT !.pc = "image", !.fn = "create_host_visible_image",
                                !.image = "live"]
                ELSE [ImageFail EXCEPT !.fn = "create_host_visible_image"]
    /\ UNCHANGED <<mt, al, cd, pk, sw, bf, cb, pg>>

\* Lines 166-175: the memory requirements, the memory type index and
\* allocate_memory(...)?
HostVisibleAllocate ==
    /\ im.pc = "image"
    /\ im.fn = "create_host_visible_image"
    /\ \E t \in MemoryPropertiesTables, type_bits \in TypeBitsValues, ok \in BOOLEAN :
          LET index == get_memory_type_index(t, type_bits,
                                             HOST_VISIBLE + HOST_COHERENT)
          IN  im' = IF ok
                    THEN [im EXCEPT !.pc = "memory", !.memory = "live",
                                    !.memory_type_index = index]
                    ELSE [ImageFail EXCEPT !.memory_type_index = index]
    /\ UNCHANGED <<mt, al, cd, pk, sw, bf, cb, pg>>

\* Lines 176-178: bind_image_memory(dst_image, dst_device_memory, 0)? and
\* Ok((dst_image, dst_device_memory))
HostVisibleBind ==
    /\ im.pc = "memory"
    /\ im.fn = "create_host_visible_image"
    /\ \E ok \in BOOLEAN :
          im' = IF ok THEN [im EXCEPT !.pc = "ok", !.bound = TRUE] ELSE ImageFail
    /\ UNCHANGED <<mt, al, cd, pk, sw, bf, cb, pg>>

---------------------------------------------------------------------------
(* image_utils.rs: transition_image_to_general and copy_image_to_host *)

ImageLayouts == {"UNDEFINED", "GENERAL", "TRANSFER_DST_OPTIMAL", "TRANSFER_SRC_OPTIMAL"}

\* The helper in progress: the statement it executes next, its command
\* buffer, whether its submission may still be executing, the device calls
\* it has made, the commands recorded, and the layouts of the images it is
\* given, now and at the call.
HelperIdle ==
    [pc |-> "idle", fn |-> "", command_buffer |-> "null", flags |-> "",
     in_flight |-> FALSE, calls |-> <<>>, commands |-> <<>>,
     width |-> 0, height |-> 0,
     layouts |-> [image |-> "UNDEFINED"], before |-> [image |-> "UNDEFINED"]]

following_free_before_wait(statement) ==
    CASE statement = "allocate" -> "begin"
      [] statement = "begin" -> "record"
      [] statement = "record" -> "end"
      [] statement = "end" -> "submit"
      [] statement = "submit" -> "free"
      [] statement = "free" -> "wait_idle"
      [] statement = "wait_idle" -> "ok"

\* Lines 84-142 and 190-293: the statement that follows each statement of
\* the two helpers when it does not leave the function.
following(statement) ==
    CASE statement = "allocate" -> "begin"
      [] statement = "begin" -> "record"
      [] statement = "record" -> "end"
      [] statement = "end" -> "submit"
      [] statement = "submit" -> "wait_idle"
      [] statement = "wait_idle" -> "free"
      [] statement = "free" -> "ok"

\* A call is made and logged; an error that `?` propagates ends the helper.
Logged(call) == Append(cb.calls, call)
HelperErr(call) == [cb EXCEPT !.pc = "err", !.calls = Logged(call)]

\* The layouts after the queue has executed the commands: a pipeline
\* barrier moves the image it names to its new layout, a copy moves none.
RECURSIVE Execute(_, _)
Execute(commands, layouts) ==
    IF commands = <<>> THEN layouts
    ELSE LET c == Head(commands)
         IN  Execute(Tail(commands),
                     IF c.cmd = "pipeline_barrier"
                     THEN [layouts EXCEPT ![c.image] = c.new_layout]
                     ELSE layouts)

\* queue_wait_idle(graphics_queue)?: on success the submission has been
\* executed; on an error (the device is lost) the first k of its commands
\* have been, and it is not known to have finished.
WaitIdle(ok, k) ==
    IF ok
    THEN [cb EXCEPT !.pc = following("wait_idle"),
                    !.calls = Logged("queue_wait_idle"),
                    !.in_flight = FALSE,
                    !.command_buffer =
                        IF cb.flags = "ONE_TIME_SUBMIT" THEN "invalid" ELSE "executable",
                    !.layouts = Execute(cb.commands, cb.layouts)]
    ELSE [HelperErr("queue_wait_idle")
             EXCEPT !.layouts = Execute(SubSeq(cb.commands, 1, k), cb.layouts)]

\* queue_submit(..).expect("Failed to execute queue submit.")
Submit(ok) ==
    IF ok
    THEN [cb EXCEPT !.pc = following("submit"), !.calls = Logged("queue_submit"),
                    !.command_buffer = "pending", !.in_flight = TRUE]
    ELSE [cb EXCEPT !.pc = "panic", !.calls = Logged("queue_submit")]

\* free_command_buffers(command_pool, &[command_buffer])
Free ==
    [cb EXCEPT !.pc = following("free"), !.calls = Logged("free_command_buffers"),
               !.command_buffer = "freed"]

\* Lines 101-114: the image memory barrier of transition_image_to_general.
transition_barrier(image) ==
    [cmd |-> "pipeline_barrier",
     src_stage_mask |-> "ALL_COMMANDS", dst_stage_mask |-> "ALL_COMMANDS",
     src_access_mask |-> {}, dst_access_mask |-> {},
     old_layout |-> "UNDEFINED", new_layout |-> "GENERAL", image |-> image]

\* Lines 84-90: allocate_command_buffers(...)?[0], for an image in any layout.
TransitionAllocate ==
    /\ cb.pc = "idle"
    /\ \E layout \in ImageLayouts, ok \in BOOLEAN :
          LET called == [cb EXCEPT !.fn = "transition_image_to_general",
                                   !.calls = Logged("allocate_command_buffers"),
                                   !.layouts = [image |-> layout],
                                   !.before = [image |-> layout]]
          IN  cb' = IF ok
                    THEN [called EXCEPT !.pc = following("allocate"),
                                        !.command_buffer = "initial"]
                    ELSE [called EXCEPT !.pc = "err"]
    /\ UNCHANGED <<mt, al, cd, pk, sw, bf, im, pg>>

\* Lines 92-99: begin_command_buffer(command_buffer, ONE_TIME_SUBMIT)?
TransitionBegin ==
    /\ cb.pc = "begin"
    /\ cb.fn = "transition_image_to_general"
    /\ \E ok \in BOOLEAN :
          cb' = IF ok
                THEN [cb EXCEPT !.pc = following("begin"),
                                !.calls = Logged("begin_command_buffer"),
                                !.command_buffer = "recording",
                                !.flags = "ONE_TIME_SUBMIT"]
                ELSE HelperErr("begin_command_buffer")
    /\ UNCHANGED <<mt, al, cd, pk, sw, bf, im, pg>>

\* Lines 101-125: cmd_pipeline_barrier with the one image memory barrier.
TransitionRecord ==
    /\ cb.pc = "record"
    /\ cb.fn = "transition_image_to_general"
    /\ cb' = [cb EXCEPT !.pc = following("record"),
                        !.calls = Logged("cmd_pipeline_barrier"),
                        !.commands = <<transition_barrier("image")>>]
    /\ UNCHANGED <<mt, al, cd, pk, sw, bf, im, pg>>

\* Line 127: end_command_buffer(command_buffer)?
TransitionEnd ==
    /\ cb.pc = "end"
    /\ cb.fn = "transition_image_to_general"
    /\ \E ok \in BOOLEAN :
          cb' = IF ok
                THEN [cb EXCEPT !.pc = following("end"),
                                !.calls = Logged("end_command_buffer"),
                                !.command_buffer = "executable"]
                ELSE HelperErr("end_command_buffer")
    /\ UNCHANGED <<mt, al, cd, pk, sw, bf, im, pg>>

\* Lines 129-136
TransitionSubmit ==
    /\ cb.pc = "submit"
    /\ cb.fn = "transition_image_to_general"
    /\ \E ok \in BOOLEAN : cb' = Submit(ok)
    /\ UNCHANGED <<mt, al, cd, pk, sw, bf, im, pg>>

\* Line 138
TransitionWaitIdle ==
    /\ cb.pc = "wait_idle"
    /\ cb.fn = "transition_image_to_general"
    /\ \E ok \in BOOLEAN, k \in 0..Len(cb.commands) : cb' = WaitIdle(ok, k)
    /\ UNCHANGED <<mt, al, cd, pk, sw, bf, im, pg>>

\* Line 139; line 142, Ok(()), follows it.
TransitionFree ==
    /\ cb.pc = "free"
    /\ cb.fn = "transition_image_to_general"
    /\ cb' = Free
    /\ UNCHANGED <<mt, al, cd, pk, sw, bf, im, pg>>

\* Lines 202-215: the barrier that makes dst_image a transfer destination.
copy_barrier_before(dst_image) ==
    [cmd |-> "pipeline_barrier",
     src_stage_mask |-> "TRANSFER", dst_stage_mask |-> "TRANSFER",
     src_access_mask |-> {}, dst_access_mask |-> {"TRANSFER_WRITE"},
     old_layout |-> "UNDEFINED", new_layout |-> "TRANSFER_DST_OPTIMAL",
     image |-> dst_image]

\* Lines 229-250: the copy region and cmd_copy_image.
copy_image(src_image, dst_image, width, height) ==
    [cmd |-> "copy_image",
     src_image |-> src_image, src_image_layout |-> "GENERAL",
     dst_image |-> dst_image, dst_image_layout |-> "TRANSFER_DST_OPTIMAL",
     regions |-> <<[extent |-> [width |-> width, height |-> height, depth |-> 1]]>>]

\* Lines 253-266: the barrier that makes dst_image readable by the host.
copy_barrier_after(dst_image) ==
    [cmd |-> "pipeline_barrier",
     src_stage_mask |-> "TRANSFER", dst_stage_mask |-> "TRANSFER",
     src_access_mask |-> {"TRANSFER_WRITE"}, dst_access_mask |-> {"MEMORY_READ"},
     old_layout |-> "TRANSFER_DST_OPTIMAL", new_layout |-> "GENERAL",
     image |-> dst_image]

copy_commands_without_last_barrier(src_image, dst_image, width, height) ==
    <<copy_barrier_before(dst_image),
      copy_image(src_image, dst_image, width, height)>>

\* Lines 202-277: the commands copy_image_to_host records, in order.
copy_commands(src_image, dst_image, width, height) ==
    <<copy_barrier_before(dst_image),
      copy_image(src_image, dst_image, width, height),
      copy_barrier_after(dst_image)>>

\* Lines 190-196: allocate_command_buffers(...)?[0], for a source and a
\* destination image in any layouts.
CopyAllocate ==
    /\ cb.pc = "idle"
    /\ \E src \in ImageLayouts, dst \in ImageLayouts,
          width \in 1..MaxDim, height \in 1..MaxDim, ok \in BOOLEAN :
          LET called == [cb EXCEPT !.fn = "copy_image_to_host",
                                   !.calls = Logged("allocate_command_buffers"),
                                   !.width = width, !.height = height,
                                   !.layouts = [src_image |-> src, dst_image |-> dst],
                                   !.before = [src_image |-> src, dst_image |-> dst]]
          IN  cb' = IF ok
                    THEN [called EXCEPT !.pc = following("allocate"),
                                        !.command_buffer = "initial"]
                    ELSE [called EXCEPT !.pc = "err"]
    /\ UNCHANGED <<mt, al, cd, pk, sw, bf, im, pg>>

\* Lines 198-200: begin_command_buffer(copy_cmd, default flags)?
CopyBegin ==
    /\ cb.pc = "begin"
    /\ cb.fn = "copy_image_to_host"
    /\ \E ok \in BOOLEAN :
          cb' = IF ok
                THEN [cb EXCEPT !.pc = following("begin"),
                                !.calls = Logged("begin_command_buffer"),
                                !.command_buffer = "recording"]
                ELSE HelperErr("begin_command_buffer")
    /\ UNCHANGED <<mt, al, cd, pk, sw, bf, im, pg>>

\* Lines 202-277: cmd_pipeline_barrier, cmd_copy_image, cmd_pipeline_barrier.
CopyRecord ==
    /\ cb.pc = "record"
    /\ cb.fn = "copy_image_to_host"
    /\ LET commands == copy_commands("src_image", "dst_image", cb.width, cb.height)
       IN  cb' = [cb EXCEPT !.pc = following("record"),
                           !.calls = cb.calls \o
                               [k \in 1..Len(commands) |-> "cmd_" \o commands[k].cmd],
                           !.commands = commands]
    /\ UNCHANGED <<mt, al, cd, pk, sw, bf, im, pg>>

\* Line 279: end_command_buffer(copy_cmd)?
CopyEnd ==
    /\ cb.pc = "end"
    /\ cb.fn = "copy_image_to_host"
    /\ \E ok \in BOOLEAN :
          cb' = IF ok
                THEN [cb EXCEPT !.pc = following("end"),
                                !.calls = Logged("end_command_buffer"),
                                !.command_buffer = "executable"]
                ELSE HelperErr("end_command_buffer")
    /\ UNCHANGED <<mt, al, cd, pk, sw, bf, im, pg>>

\* Lines 281-287
CopySubmit ==
    /\ cb.pc = "submit"
    /\ cb.fn = "copy_image_to_host"
    /\ \E ok \in BOOLEAN : cb' = Submit(ok)
    /\ UNCHANGED <<mt, al, cd, pk, sw, bf, im, pg>>

\* Line 289
CopyWaitIdle ==
    /\ cb.pc = "wait_idle"
    /\ cb.fn = "copy_image_to_host"
    /\ \E ok \in BOOLEAN, k \in 0..Len(cb.commands) : cb' = WaitIdle(ok, k)
    /\ UNCHANGED <<mt, al, cd, pk, sw, bf, im, pg>>

\* Line 290; line 293, Ok(()), follows it.
CopyFree ==
    /\ cb.pc = "free"
    /\ cb.fn = "copy_image_to_host"
    /\ cb' = Free
    /\ UNCHANGED <<mt, al, cd, pk, sw, bf, im, pg>>

---------------------------------------------------------------------------
(* image_utils.rs: save_image_to_png *)

\* Line 339, 4 * 4 * width: four f32 channels of four bytes to a pixel.
CHANNELS == 4
F32_BYTES == 4

\* The memory behind the image, as the f32 values it holds, word by word: a
\* subresource that starts offset bytes in and whose rows are row_pitch
\* bytes apart, both multiples of the size of an f32.  The image is dark
\* except for at most one channel of one texel, or one word of padding,
\* which holds n_samples: a radiance of 1.0 accumulated over n_samples
\* samples.  lit = 0 is the image that is dark throughout.
MemoryWords(width, height, offset, row_pitch) ==
    (offset + (height - 1) * row_pitch) \div F32_BYTES + CHANNELS * width

HostImage(width, height, offset, row_pitch, n_samples, lit) ==
    [k \in 1..MemoryWords(width, height, offset, row_pitch) |->
        IF k = lit THEN n_samples ELSE 0]

PngIdle ==
    [pc |-> "idle", mapped |-> FALSE, memory |-> <<>>,
     width |-> 0, height |-> 0, n_samples |-> 0,
     offset |-> 0, row_pitch |-> 0, data |-> 0,
     rows |-> <<>>, written |-> 0, file |-> <<>>]

\* .unwrap() on an Err: the function is left by a panic, and nothing the
\* function holds is released by unwinding.
PngPanic == [pg EXCEPT !.pc = "panic"]

\* Lines 305-322: get_image_subresource_layout, map_memory(..).unwrap() and
\* data.offset(subresource_layout.offset).
PngMap ==
    /\ pg.pc = "idle"
    /\ \E width \in 1..MaxDim, height \in 1..MaxDim, n_samples \in 1..MaxSamples,
          o \in 0..MaxOffset, pad \in 0..MaxRowPadding, ok \in BOOLEAN :
          LET offset == F32_BYTES * o
              row_pitch == F32_BYTES * (CHANNELS * width + pad)
          IN  \E lit \in 0..MemoryWords(width, height, offset, row_pitch) :
                 LET called ==
                        [pg EXCEPT !.width = width, !.height = height,
                                   !.n_samples = n_samples,
                                   !.offset = offset, !.row_pitch = row_pitch,
                                   !.memory = HostImage(width, height, offset,
                                                        row_pitch, n_samples, lit)]
                 IN  pg' = IF ok
                           THEN [called EXCEPT !.pc = "create", !.mapped = TRUE,
                                               !.data = offset]
                           ELSE [called EXCEPT !.pc = "panic"]
    /\ UNCHANGED <<mt, al, cd, pk, sw, bf, im, cb>>

\* Lines 324-326: File::create(filename).unwrap() and the encoder.
PngCreateFile ==
    /\ pg.pc = "create"
    /\ \E ok \in BOOLEAN :
          pg' = IF ok THEN [pg EXCEPT !.pc = "header"] ELSE PngPanic
    /\ UNCHANGED <<mt, al, cd, pk, sw, bf, im, cb>>

\* Lines 328-332: write_header().unwrap() and
\* into_stream_writer_with_size(..).unwrap()
PngHeader ==
    /\ pg.pc = "header"
    /\ \E ok \in BOOLEAN :
          pg' = IF ok THEN [pg EXCEPT !.pc = "rows"] ELSE PngPanic
    /\ UNCHANGED <<mt, al, cd, pk, sw, bf, im, cb>>

\* Lines 335-336 and 344: (pixel[c] * scale).powf(gamma), in thousandths.
\* The channels of the images above hold 0.0 or n_samples, so the scaled
\* value is 0.0 or 1.0, and x.powf(1.0 / 2.2) leaves both where they are.
scaled_powf(value, n_samples) ==
    LET scaled == (1000 * value) \div n_samples
    IN  CASE scaled = 0 -> 0
          [] scaled = 1000 -> 1000

\* Lines 344-346: (256.0 * x.clamp(0.0, 0.999)) as u8, the cast truncating.
channel_to_u8(value, n_samples) ==
    (256 * clamp(scaled_powf(value, n_samples), 0, 999)) \div 1000

\* Lines 339-340: from_raw_parts(data, 4 * 4 * width) as a slice of f32.
row_f32(memory, data, width) ==
    [j \in 1..(CHANNELS * width) |-> memory[data \div F32_BYTES + j]]

\* Lines 341-351: chunks(4) and the four bytes made of each pixel.
row_rgba8(row, n_samples) ==
    [j \in 1..Len(row) |->
        IF (j - 1) % CHANNELS = 3 THEN 255 ELSE channel_to_u8(row[j], n_samples)]

\* Lines 338-354: one turn of the loop over 0..height.
PngRow ==
    /\ pg.pc = "rows"
    /\ Len(pg.rows) < pg.height
    /\ pg' = [pg EXCEPT !.rows = Append(@, row_rgba8(row_f32(pg.memory, pg.data, pg.width),
                                                     pg.n_samples)),
                        !.data = @ + pg.row_pitch,
                        !.pc = IF Len(pg.rows) + 1 = pg.height THEN "write" ELSE "rows"]
    /\ UNCHANGED <<mt, al, cd, pk, sw, bf, im, cb>>

write_order_forward(rows) == rows

\* Line 356: rows.iter().rev()
write_order(rows) == [k \in 1..Len(rows) |-> rows[Len(rows) + 1 - k]]

\* Lines 356-358: one turn of the loop, png_writer.write_all(row).unwrap()
PngWriteRow ==
    /\ pg.pc = "write"
    /\ pg.written < Len(pg.rows)
    /\ \E ok \in BOOLEAN :
          pg' = IF ok
                THEN [pg EXCEPT !.file = Append(@, write_order(pg.rows)[pg.written + 1]),
                                !.written = @ + 1,
                                !.pc = IF pg.written + 1 = Len(pg.rows)
                                       THEN "finish" ELSE "write"]
                ELSE PngPanic
    /\ UNCHANGED <<mt, al, cd, pk, sw, bf, im, cb>>

\* Line 360: png_writer.finish().unwrap()
PngFinish ==
    /\ pg.pc = "finish"
    /\ \E ok \in BOOLEAN :
          pg' = IF ok THEN [pg EXCEPT !.pc = "unmap"] ELSE PngPanic
    /\ UNCHANGED <<mt, al, cd, pk, sw, bf, im, cb>>

\* Lines 362-364: unmap_memory(dst_device_memory), and the function returns.
PngUnmap ==
    /\ pg.pc = "unmap"
    /\ pg' = [pg EXCEPT !.pc = "returned", !.mapped = FALSE]
    /\ UNCHANGED <<mt, al, cd, pk, sw, bf, im, cb>>

---------------------------------------------------------------------------
(* Initial state and specifications *)

Init ==
    /\ mt = [called |-> FALSE,
             device_memory_properties |->
                 [memory_type_count |-> 0,
                  memory_types |-> [k \in 1..MaxMemTypes |-> [property_flags |-> 0]]],
             type_bits |-> 0,
             properties |-> 0,
             ret |-> 0]
    /\ al = [called |-> FALSE, value |-> 0, alignment |-> 0,
             overflow_checks |-> FALSE, once |-> Val(0), twice |-> Val(0)]
    /\ cd = [called |-> FALSE,
             queue_indices |-> QueueFamilyIndicesDefault,
             headless_mode |-> FALSE,
             queue_create_infos |-> <<>>,
             enabled_extension_names |-> <<>>]
    /\ pk = PickIdle
    /\ sw = SwapIdle
    /\ bf = BufferIdle
    /\ im = ImageIdle
    /\ cb = HelperIdle
    /\ pg = PngIdle

NextMemory == GetMemoryTypeIndex
SpecMemory == Init /\ [][NextMemory]_vars

NextAlign == AlignedSize
SpecAlign == Init /\ [][NextAlign]_vars

NextDevice == CreateDevice
SpecDevice == Init /\ [][NextDevice]_vars

NextSwapchain ==
    \/ SwapCapabilities \/ SwapFormat \/ SwapPresentMode \/ SwapImageCount
    \/ SwapExtent \/ SwapCreate \/ SwapImages \/ SwapView \/ SwapReturn
    \/ SwapDestroy
SpecSwapchain == Init /\ [][NextSwapchain]_vars

NextBuffer ==
    BufferNew \/ StoreBegin \/ StoreMap \/ StoreCopy \/ StoreUnmap \/ BufferDestroy
SpecBuffer == Init /\ [][NextBuffer]_vars

NextImage ==
    \/ RenderTargetCreateImage \/ RenderTargetAllocate \/ RenderTargetBind
    \/ RenderTargetView \/ RenderTargetDestroy
    \/ HostVisibleCreateImage \/ HostVisibleAllocate \/ HostVisibleBind

\* One object is followed per behaviour, from its creation to its
\* destruction: a swapchain, a buffer, or an image.  The three share no state.
NextLifecycle ==
    \/ bf = BufferIdle /\ im = ImageIdle /\ NextSwapchain
    \/ sw = SwapIdle /\ im = ImageIdle /\ NextBuffer
    \/ sw = SwapIdle /\ bf = BufferIdle /\ NextImage
SpecLifecycle == Init /\ [][NextLifecycle]_vars

NextHelpers ==
    \/ TransitionAllocate \/ TransitionBegin \/ TransitionRecord \/ TransitionEnd
    \/ TransitionSubmit \/ TransitionWaitIdle \/ TransitionFree
    \/ CopyAllocate \/ CopyBegin \/ CopyRecord \/ CopyEnd
    \/ CopySubmit \/ CopyWaitIdle \/ CopyFree
SpecHelpers == Init /\ [][NextHelpers]_vars

NextPng ==
    \/ PngMap \/ PngCreateFile \/ PngHeader \/ PngRow \/ PngWriteRow
    \/ PngFinish \/ PngUnmap
SpecPng == Init /\ [][NextPng]_vars

NextPick == PickBegin \/ PickQuery \/ PickDecide \/ PickExhausted
SpecPick == Init /\ [][NextPick]_vars

---------------------------------------------------------------------------
(* Claims about get_memory_type_index *)

\* Bit i of the mask x (bit 0 is the least significant).
BitSet(x, i) == (x \div Pow2(i)) % 2 = 1

\* The flags of a mask, as a set of bit positions.
FlagsOf(x) == {k \in 0..2 : BitSet(x, k)}

\* Memory type i passes the bit test and the flag superset test.
TypeMatches(t, b, p, i) ==
    /\ i < t.memory_type_count
    /\ BitSet(b, i)
    /\ FlagsOf(p) \subseteq FlagsOf(t.memory_types[i + 1].property_flags)

MatchingTypes(t, b, p) == {i \in 0..(MaxMemTypes - 1) : TypeMatches(t, b, p, i)}

\* C1: get_memory_type_index returns the lowest index below
\* memory_type_count whose bit is set in the bitmask and whose property
\* flags are a superset of the desired flags; when no index passes both
\* tests the outcome is a defined "none found", which is not the index of
\* any memory type, so a type that fails a test is never returned.
C1_LowestMatchOrNoneFound ==
    mt.called =>
        LET M == MatchingTypes(mt.device_memory_properties, mt.type_bits, mt.properties)
        IN  IF M # {} THEN mt.ret = Min(M)
            ELSE mt.ret \notin 0..(MaxMemTypes - 1)

\* The part of C1 that the code keeps: when some memory type passes both
\* tests, the lowest such index is returned.
C1_LowestMatchWhenFound ==
    mt.called =>
        LET M == MatchingTypes(mt.device_memory_properties, mt.type_bits, mt.properties)
        IN  /\ M # {} => mt.ret = Min(M)
            /\ M = {} => mt.ret = 0

---------------------------------------------------------------------------
(* Claims about aligned_size *)

IsPowerOfTwo(a) == \E k \in 0..(WordBits - 1) : a = Pow2(k)

\* r is the smallest multiple of a that is >= v (over the integers).
SmallestMultipleAtLeast(r, v, a) ==
    /\ r % a = 0
    /\ r >= v
    /\ r - v < a

\* C4: for every value and every power-of-two alignment, aligned_size
\* returns the smallest multiple of alignment that is >= value, also for
\* values within alignment - 1 of the maximum of the integer type.
C4_SmallestMultiple ==
    (al.called /\ IsPowerOfTwo(al.alignment)) =>
        /\ ~al.once.panic
        /\ SmallestMultipleAtLeast(al.once.val, al.value, al.alignment)

\* The part of C4 that the code keeps: when value + alignment fits the
\* word, no operation overflows and the result is the smallest multiple.
C4_SmallestMultipleWithoutOverflow ==
    (al.called /\ IsPowerOfTwo(al.alignment) /\ al.value + al.alignment <= WordMax) =>
        /\ ~al.once.panic
        /\ SmallestMultipleAtLeast(al.once.val, al.value, al.alignment)

\* The part of C5 that the code keeps: with wrapping arithmetic (no overflow
\* checks) the second application always returns the value of the first.
C5_IdempotentWhenWrapping ==
    (al.called /\ IsPowerOfTwo(al.alignment) /\ ~al.overflow_checks) =>
        /\ ~al.once.panic
        /\ ~al.twice.panic
        /\ al.twice.val = al.once.val

\* C5: aligned_size is idempotent: whenever aligned_size(v, a) yields a
\* value for a power-of-two a, aligned_size of that value and a yields the
\* same value.
C5_Idempotent ==
    (al.called /\ IsPowerOfTwo(al.alignment) /\ ~al.once.panic) =>
        /\ ~al.twice.panic
        /\ al.twice.val = al.once.val

---------------------------------------------------------------------------
(* Claims about QueueFamilyIndices and create_device *)

NoDuplicates(s) == \A i, j \in 1..Len(s) : i # j => s[i] # s[j]

\* The indices of a QueueFamilyIndices value that are set.
SetFamilies(q) ==
    {Unwrap(o) : o \in {x \in {q.graphics_family, q.compute_family, q.present_family} :
                          IsSome(x)}}

\* C2: for every combination of graphics, compute and present indices (set
\* or unset, equal or distinct) unique_families has no repeated index and
\* holds exactly the indices that are set, and create_device builds one
\* queue-creation request per element of it, so no family is requested twice.
C2_UniqueFamilies ==
    cd.called =>
        LET u == unique_families(cd.queue_indices)
            infos == cd.queue_create_infos
        IN  /\ NoDuplicates(u)
            /\ Range(u) = SetFamilies(cd.queue_indices)
            /\ Len(infos) = Len(u)
            /\ \A k \in 1..Len(infos) : infos[k].queue_family_index = u[k]
            /\ \A i, j \in 1..Len(infos) :
                  i # j => infos[i].queue_family_index # infos[j].queue_family_index
            /\ Cardinality({infos[k].queue_family_index : k \in 1..Len(infos)})
                  = Cardinality(SetFamilies(cd.queue_indices))

\* Witness of C2: graphics and compute share a family, present has another
\* one, and two requests were built.
C2_Witness ==
    /\ cd.called
    /\ IsSome(cd.queue_indices.graphics_family)
    /\ cd.queue_indices.compute_family = cd.queue_indices.graphics_family
    /\ IsSome(cd.queue_indices.present_family)
    /\ cd.queue_indices.present_family # cd.queue_indices.graphics_family
    /\ Len(cd.queue_create_infos) = 2

---------------------------------------------------------------------------
(* Claims about pick_physical_device_and_queue_family_indices *)

\* The lowest-indexed family (0-based) among those at the positions in S.
LowestFamily(S) == Some(Min(S) - 1)

GraphicsFamilies(d) ==
    {k \in 1..Len(d.queue_families) : HasGraphics(d.queue_families[k])}
ComputeFamilies(d) ==
    {k \in 1..Len(d.queue_families) : HasCompute(d.queue_families[k])}
PresentFamilies(d, has_loader) ==
    {k \in 1..Len(d.queue_families) : HasPresent(d.queue_families[k], has_loader)}

\* C3: the function returns the first device in enumeration order that
\* supports every required extension and whose indices are complete for
\* {need_compute, surface supplied}, each index being the lowest-indexed
\* family of that device with the capability; it returns "no suitable
\* device" exactly when no enumerated device qualifies, and never a device
\* after an earlier qualifying one.  (A failed enumeration is returned as
\* the error it is.)
C3_FirstQualifyingDevice ==
    /\ pk.pc \in {"scanning", "examining"} =>
          \A k \in 1..Len(pk.verdicts) : ~pk.verdicts[k]
    /\ (pk.pc = "done" /\ ~pk.result.ok) => pk.verdicts = <<>>
    /\ (pk.pc = "done" /\ pk.result.ok /\ pk.result.value = None) =>
          /\ Len(pk.verdicts) = pk.n
          /\ \A k \in 1..Len(pk.verdicts) : ~pk.verdicts[k]
    /\ (pk.pc = "done" /\ pk.result.ok /\ IsSome(pk.result.value)) =>
          LET r == Unwrap(pk.result.value)
              last == Len(pk.verdicts)
          IN  /\ last >= 1
              /\ r.physical_device = last - 1
              /\ r.physical_device < pk.n
              /\ pk.verdicts[last]
              /\ \A k \in 1..(last - 1) : ~pk.verdicts[k]
              /\ r.indices.graphics_family = LowestFamily(GraphicsFamilies(pk.dev))
              /\ pk.need_compute =>
                    r.indices.compute_family = LowestFamily(ComputeFamilies(pk.dev))
              /\ pk.has_surface =>
                    r.indices.present_family
                        = LowestFamily(PresentFamilies(pk.dev, pk.has_loader))
              /\ IsSome(r.indices.compute_family) =>
                    r.indices.compute_family = LowestFamily(ComputeFamilies(pk.dev))
              /\ IsSome(r.indices.present_family) =>
                    r.indices.present_family
                        = LowestFamily(PresentFamilies(pk.dev, pk.has_loader))

\* Witness of C3: the first device was rejected and the second returned,
\* with compute and a surface required, and its graphics family is not the
\* first family it reports.
C3_Witness ==
    /\ pk.pc = "done"
    /\ pk.result.ok
    /\ IsSome(pk.result.value)
    /\ Unwrap(pk.result.value).physical_device = 1
    /\ pk.need_compute
    /\ pk.has_surface
    /\ pk.extensions = ExtensionNames
    /\ Unwrap(pk.result.value).indices.graphics_family = Some(1)
    /\ Unwrap(pk.result.value).indices.present_family = Some(0)

\* C3, "no suitable device": devices were enumerated and every one of them
\* was examined and rejected.
C3_WitnessNone ==
    /\ pk.pc = "done"
    /\ pk.result.ok
    /\ pk.result.value = None
    /\ pk.n = MaxDevices

---------------------------------------------------------------------------
(* Claims about Swapchain::new *)

PreferredFormat == [format |-> "B8G8R8A8_SRGB", color_space |-> "SRGB_NONLINEAR"]

\* C6: for a non-empty list of surface formats the negotiated format is the
\* first entry equal to (B8G8R8A8_SRGB, SRGB_NONLINEAR) when the list has
\* one and list[0] otherwise, and it is the format the swapchain is created
\* with; with an empty list construction fails with an error before any
\* swapchain is created.
C6_FormatNegotiation ==
    /\ sw.pc = "format" =>
          /\ sw.surface_formats # <<>>
          /\ (\E k \in 1..Len(sw.surface_formats) : sw.surface_formats[k] = PreferredFormat)
                => sw.surface_format = PreferredFormat
          /\ (\A k \in 1..Len(sw.surface_formats) : sw.surface_formats[k] # PreferredFormat)
                => sw.surface_format = sw.surface_formats[1]
    /\ sw.error = "No surface formats available" =>
          /\ sw.pc = "err"
          /\ sw.surface_formats = <<>>
          /\ sw.swapchain = "null"
    /\ sw.swapchain # "null" =>
          /\ sw.create_info.image_format = sw.surface_format.format
          /\ sw.create_info.image_color_space = sw.surface_format.color_space

\* Witness of C6: the preferred format is second in the list and is chosen.
C6_Witness ==
    /\ sw.pc = "format"
    /\ Len(sw.surface_formats) = 2
    /\ sw.surface_formats[1] # PreferredFormat
    /\ sw.surface_formats[2] = PreferredFormat
    /\ sw.surface_format = PreferredFormat

\* C7: for a non-empty list of present modes the selected mode is MAILBOX
\* when the list contains MAILBOX and FIFO otherwise; with an empty list
\* construction fails with an error before any swapchain is created.
C7_PresentModeSelection ==
    /\ sw.pc = "mode" =>
          /\ sw.present_modes # <<>>
          /\ "MAILBOX" \in Range(sw.present_modes) => sw.present_mode = "MAILBOX"
          /\ "MAILBOX" \notin Range(sw.present_modes) => sw.present_mode = "FIFO"
    /\ sw.error = "No present modes available" =>
          /\ sw.pc = "err"
          /\ sw.present_modes = <<>>
          /\ sw.swapchain = "null"

\* Witness of C7: the list is FIFO, MAILBOX and MAILBOX is selected.
C7_Witness ==
    /\ sw.pc = "mode"
    /\ sw.present_modes = <<"FIFO", "MAILBOX">>
    /\ sw.present_mode = "MAILBOX"

\* C8: the requested image count is min_image_count + 1, clamped so that it
\* does not exceed max(max_image_count, min_image_count + 1); a reported
\* max_image_count of 0 never lowers it below min_image_count + 1.
C8_ImageCount ==
    sw.pc = "count" =>
        LET wanted == sw.min_image_count + 1
            cap == IF sw.max_image_count >= wanted THEN sw.max_image_count ELSE wanted
        IN  /\ sw.image_count = IF wanted <= cap THEN wanted ELSE cap
            /\ sw.image_count <= cap
            /\ sw.max_image_count = 0 => sw.image_count >= wanted

\* Witness of C8: the surface reports max_image_count = 0 (no limit).
C8_Witness ==
    /\ sw.pc = "count"
    /\ sw.max_image_count = 0
    /\ sw.min_image_count = MaxMinImages
    /\ sw.image_count = MaxMinImages + 1

\* v clamped into lo..hi: the value of the range nearest to v.
IsClamped(e, v, lo, hi) ==
    /\ e \in lo..hi
    /\ v \in lo..hi => e = v
    /\ v < lo => e = lo
    /\ v > hi => e = hi

\* C9: the negotiated extent is the surface's current extent whenever
\* current_extent.width is not the all-bits-set sentinel; when it is, width
\* and height are the requested width and height clamped component-wise
\* into [min_image_extent, max_image_extent], so the result is in that range.
C9_ExtentNegotiation ==
    sw.pc = "extent" =>
        /\ sw.caps.current_extent.width # U32_MAX => sw.extent = sw.caps.current_extent
        /\ sw.caps.current_extent.width = U32_MAX =>
              /\ IsClamped(sw.extent.width, sw.width,
                           sw.caps.min_image_extent.width, sw.caps.max_image_extent.width)
              /\ IsClamped(sw.extent.height, sw.height,
                           sw.caps.min_image_extent.height, sw.caps.max_image_extent.height)

\* Witness of C9: the sentinel is reported, the requested width is below
\* the minimum and the requested height above the maximum, and the width
\* and height ranges differ.
C9_Witness ==
    /\ sw.pc = "extent"
    /\ sw.caps.current_extent.width = U32_MAX
    /\ sw.width < sw.caps.min_image_extent.width
    /\ sw.height > sw.caps.max_image_extent.height
    /\ sw.caps.max_image_extent.height < sw.caps.min_image_extent.width
    /\ sw.extent.width = sw.caps.min_image_extent.width
    /\ sw.extent.height = sw.caps.max_image_extent.height

---------------------------------------------------------------------------
(* Claims about BufferResource::store *)

\* C10: round trip: for a buffer created with size S and a payload of at
\* most S bytes, when store returns the first payload-length bytes of the
\* memory are the payload bytes in order, the bytes beyond are unchanged,
\* and the memory is no longer mapped.
C10_StoreRoundTrip ==
    bf.pc = "returned" =>
        /\ Len(bf.data.bytes) <= bf.size
        /\ Len(bf.contents) = Len(bf.before)
        /\ \A k \in 1..Len(bf.data.bytes) : bf.contents[k] = bf.data.bytes[k]
        /\ \A k \in (Len(bf.data.bytes) + 1)..Len(bf.contents) :
              bf.contents[k] = bf.before[k]
        /\ ~bf.mapped

\* Witness of C10: a payload of one two-byte element, shorter than the
\* allocation, replaced different bytes and left the rest alone.
C10_Witness ==
    /\ bf.pc = "returned"
    /\ bf.data.elem_size = 2
    /\ Len(bf.data.bytes) = 2
    /\ bf.size = 2
    /\ Len(bf.contents) = 3
    /\ bf.before[1] # bf.data.bytes[1]
    /\ bf.before[2] # bf.data.bytes[2]
    /\ bf.before[3] = 1


\* C11: a store whose payload is larger than the buffer stops at the
\* assertion: the call panics, nothing is mapped, and the memory holds what it
\* held before the call.
C11_OversizeStoreFailsFast ==
    payload_size(bf.data) > bf.size =>
        /\ bf.pc = "panic"
        /\ ~bf.mapped
        /\ bf.mapped_size = 0
        /\ bf.contents = bf.before

\* An oversize store made after an earlier store has written the memory.
C11_Witness ==
    /\ bf.pc = "panic"
    /\ payload_size(bf.data) > bf.size
    /\ bf.stores = 2
    /\ \E k \in 1..Len(bf.contents) : bf.contents[k] = 1

\* C19 as stated: for every non-empty list of reported present modes, the
\* present mode of the create info given to create_swapchain is one of the
\* reported modes.
C19_PresentModeReported ==
    sw.create_info # NoCreateInfo =>
        sw.create_info.present_mode \in sw.reported_modes

\* C19, amended: when the reported list contains MAILBOX or FIFO, the present
\* mode of the create info given to create_swapchain is one of the reported
\* modes.
C19_PresentModeReportedWhenFifoOrMailbox ==
    (sw.create_info # NoCreateInfo
        /\ sw.reported_modes \cap {"MAILBOX", "FIFO"} # {}) =>
        sw.create_info.present_mode \in sw.reported_modes

\* Witness of C19: FIFO and IMMEDIATE are reported, and the swapchain is
\* created with FIFO.
C19_Witness ==
    /\ sw.pc = "created"
    /\ sw.reported_modes = {"FIFO", "IMMEDIATE"}
    /\ sw.create_info.present_mode = "FIFO"

\* C20: when the surface reports a max_image_count that is not 0 and is at
\* least min_image_count, the image count chosen at lines 58-59, which is the
\* min_image_count of the create info, does not exceed max_image_count.
C20_ImageCountWithinMax ==
    /\ (sw.pc = "count" /\ sw.max_image_count # 0
            /\ sw.max_image_count >= sw.min_image_count) =>
          sw.image_count <= sw.max_image_count
    /\ sw.create_info # NoCreateInfo =>
          sw.create_info.min_image_count = sw.image_count

\* C12 as stated: when RenderTargetImage::new, create_host_visible_image or
\* Swapchain::new returns an error, no image, memory block, view or swapchain
\* that the call created is still live.
C12_NoLeakOnFailure ==
    /\ im.pc = "err" =>
          /\ im.image # "live"
          /\ im.memory # "live"
          /\ im.view # "live"
    /\ sw.pc = "err" =>
          /\ sw.swapchain # "live"
          /\ sw.live_views = 0

\* The positions of the log at which the call is made on the handle.
CallsOn(calls, call, handle) ==
    {k \in 1..Len(calls) : calls[k].call = call /\ calls[k].handle = handle}

CalledOnce(calls, call, handle) == Cardinality(CallsOn(calls, call, handle)) = 1

CalledBefore(calls, call1, handle1, call2, handle2) ==
    \A i \in CallsOn(calls, call1, handle1), j \in CallsOn(calls, call2, handle2) :
        i < j

\* C15: every destroy releases each handle exactly once and in dependency
\* order: RenderTargetImage::destroy the view, then the image, then the
\* memory; BufferResource::destroy the buffer, then the memory;
\* Swapchain::destroy every image view, then the swapchain.
C15_DestroyOrder ==
    /\ im.pc = "destroyed" =>
          /\ Len(im.calls) = 3
          /\ CalledOnce(im.calls, "destroy_image_view", "view")
          /\ CalledOnce(im.calls, "destroy_image", "image")
          /\ CalledOnce(im.calls, "free_memory", "memory")
          /\ CalledBefore(im.calls, "destroy_image_view", "view", "destroy_image", "image")
          /\ CalledBefore(im.calls, "destroy_image", "image", "free_memory", "memory")
    /\ bf.pc = "destroyed" =>
          /\ Len(bf.calls) = 2
          /\ CalledOnce(bf.calls, "destroy_buffer", "buffer")
          /\ CalledOnce(bf.calls, "free_memory", "memory")
          /\ CalledBefore(bf.calls, "destroy_buffer", "buffer", "free_memory", "memory")
    /\ sw.pc = "destroyed" =>
          /\ Len(sw.calls) = sw.image_views + 1
          /\ CalledOnce(sw.calls, "destroy_swapchain", 0)
          /\ \A v \in 1..sw.image_views :
                /\ CalledOnce(sw.calls, "destroy_image_view", v)
                /\ CalledBefore(sw.calls, "destroy_image_view", v, "destroy_swapchain", 0)
    /\ im.pc # "destroyed" => im.calls = <<>>
    /\ bf.pc # "destroyed" => bf.calls = <<>>
    /\ sw.pc # "destroyed" => sw.calls = <<>>

\* Witness of C15: a swapchain with three image views has been destroyed.
C15_Witness ==
    /\ sw.pc = "destroyed"
    /\ sw.image_views = 3
    /\ Len(sw.calls) = 4

\* The device calls of a helper that returns Ok, in the order the claim
\* gives: allocate, begin, the recorded commands, end, submit, wait, free.
ExpectedCalls(fn) ==
    <<"allocate_command_buffers", "begin_command_buffer">>
        \o (IF fn = "copy_image_to_host"
            THEN <<"cmd_pipeline_barrier", "cmd_copy_image", "cmd_pipeline_barrier">>
            ELSE <<"cmd_pipeline_barrier">>)
        \o <<"end_command_buffer", "queue_submit", "queue_wait_idle",
              "free_command_buffers">>

IsPrefix(s, t) == Len(s) <= Len(t) /\ s = SubSeq(t, 1, Len(s))

\* The positions of the log at which the call is made.
CallsOf(calls, call) == {k \in 1..Len(calls) : calls[k] = call}

\* C16: each helper makes its calls in the order allocate, begin, record,
\* end, submit, queue_wait_idle, free; its command buffer is never freed
\* while its submission may still be executing, a free after a submit has a
\* queue_wait_idle that returned successfully in between, and the helper
\* never returns Ok with its submission in flight.
C16_OneShotOrder ==
    /\ cb.pc # "idle" => IsPrefix(cb.calls, ExpectedCalls(cb.fn))
    /\ cb.in_flight => cb.command_buffer = "pending"
    /\ cb.command_buffer = "freed" =>
          /\ ~cb.in_flight
          /\ cb.pc = "ok"
          /\ \A f \in CallsOf(cb.calls, "free_command_buffers"),
                 q \in CallsOf(cb.calls, "queue_submit") :
                q < f => \E w \in CallsOf(cb.calls, "queue_wait_idle") : q < w /\ w < f
    /\ (cb.pc = "err" /\ cb.calls # <<>>
            /\ cb.calls[Len(cb.calls)] = "queue_wait_idle") =>
          cb.command_buffer = "pending"
    /\ cb.pc = "ok" =>
          /\ cb.calls = ExpectedCalls(cb.fn)
          /\ ~cb.in_flight

\* Witness of C16: copy_image_to_host has returned Ok, its command buffer
\* freed after the queue went idle.
C16_Witness ==
    /\ cb.pc = "ok"
    /\ cb.fn = "copy_image_to_host"
    /\ cb.command_buffer = "freed"
    /\ Len(cb.calls) = 9

\* C17: copy_image_to_host records exactly three commands, in this order: a
\* barrier moving the destination from UNDEFINED to TRANSFER_DST_OPTIMAL, a
\* copy of the full extent from the source, declared GENERAL, to the
\* destination, declared TRANSFER_DST_OPTIMAL, and a barrier moving the
\* destination from TRANSFER_DST_OPTIMAL to GENERAL with destination access
\* MEMORY_READ.  No barrier names the source; after Ok the destination is in
\* GENERAL and the source in the layout it had at the call.
C17_CopyCommands ==
    cb.fn = "copy_image_to_host" =>
        /\ cb.pc \in {"idle", "begin", "record"} => cb.commands = <<>>
        /\ cb.pc \in {"end", "submit", "wait_idle", "free", "ok"} =>
              /\ Len(cb.commands) = 3
              /\ cb.commands[1].cmd = "pipeline_barrier"
              /\ cb.commands[1].image = "dst_image"
              /\ cb.commands[1].old_layout = "UNDEFINED"
              /\ cb.commands[1].new_layout = "TRANSFER_DST_OPTIMAL"
              /\ cb.commands[2].cmd = "copy_image"
              /\ cb.commands[2].src_image = "src_image"
              /\ cb.commands[2].src_image_layout = "GENERAL"
              /\ cb.commands[2].dst_image = "dst_image"
              /\ cb.commands[2].dst_image_layout = "TRANSFER_DST_OPTIMAL"
              /\ Len(cb.commands[2].regions) = 1
              /\ cb.commands[2].regions[1].extent =
                    [width |-> cb.width, height |-> cb.height, depth |-> 1]
              /\ cb.commands[3].cmd = "pipeline_barrier"
              /\ cb.commands[3].image = "dst_image"
              /\ cb.commands[3].old_layout = "TRANSFER_DST_OPTIMAL"
              /\ cb.commands[3].new_layout = "GENERAL"
              /\ cb.commands[3].dst_access_mask = {"MEMORY_READ"}
        /\ cb.pc = "ok" =>
              /\ cb.layouts.dst_image = "GENERAL"
              /\ cb.layouts.src_image = cb.before.src_image

\* Witness of C17: a copy of a 2 x 1 image has returned Ok; the source was
\* in TRANSFER_SRC_OPTIMAL and the destination in UNDEFINED at the call.
C17_Witness ==
    /\ cb.pc = "ok"
    /\ cb.fn = "copy_image_to_host"
    /\ cb.width = 2
    /\ cb.height = 1
    /\ cb.before = [src_image |-> "TRANSFER_SRC_OPTIMAL", dst_image |-> "UNDEFINED"]
    /\ cb.layouts = [src_image |-> "TRANSFER_SRC_OPTIMAL", dst_image |-> "GENERAL"]

\* C18 as stated: when a helper returns, Ok or an error, the command buffer
\* it allocated has been freed.
C18_CommandBufferFreed ==
    (cb.pc \in {"ok", "err"} /\ cb.command_buffer # "null") =>
        cb.command_buffer = "freed"

\* C13 as stated: once save_image_to_png has mapped the memory, the memory is
\* unmapped by the time control leaves the function, whether it returns or
\* fails to create the file, to write the header, to write a row or to
\* finish the stream.
C13_NoStandingMapping ==
    pg.pc \in {"returned", "panic"} => ~pg.mapped

\* The f32 that source row r holds for channel c of pixel x, at
\* subresource offset + r * row_pitch.
SourceChannel(r, x, c) ==
    pg.memory[(pg.offset + r * pg.row_pitch) \div F32_BYTES + CHANNELS * x + c + 1]

\* The byte a channel is converted to: dark stays 0, a fully lit colour
\* channel becomes 255, and alpha is 255 whatever the source holds.
Converted(r, x, c) ==
    IF c = 3 THEN 255
    ELSE IF SourceChannel(r, x, c) = 0 THEN 0 ELSE 255

\* C14: the rows are written in reverse order: output row k is the converted
\* content of source row height - 1 - k, read at subresource offset +
\* r * row_pitch; each row has width pixels, and once the writing is over
\* exactly height rows have been written.
C14_RowsReversed ==
    /\ Len(pg.file) = pg.written
    /\ pg.written <= pg.height
    /\ pg.pc \in {"finish", "unmap", "returned"} => Len(pg.file) = pg.height
    /\ \A k \in 0..(Len(pg.file) - 1) :
          /\ Len(pg.file[k + 1]) = CHANNELS * pg.width
          /\ \A x \in 0..(pg.width - 1), c \in 0..(CHANNELS - 1) :
                pg.file[k + 1][CHANNELS * x + c + 1] = Converted(pg.height - 1 - k, x, c)

\* Witness of C14: a 2 x 2 image whose rows are padded and whose only lit
\* channel is in the second source row; it comes out in the first row of the
\* file.
C14_Witness ==
    /\ pg.pc = "returned"
    /\ pg.width = 2
    /\ pg.height = 2
    /\ pg.row_pitch > F32_BYTES * CHANNELS * pg.width
    /\ SourceChannel(1, 1, 2) # 0
    /\ pg.file[1][CHANNELS + 3] = 255
    /\ pg.file[2][CHANNELS + 3] = 0
====
